---- MODULE Spec2Model ----
\* The refinement loop of generate_object.py (module import, main, make_code_edit,
\* load_images_from_directory) together with execute_code.execute_code and the
\* part of render_image.render_mesh_views_from_arrays the loop depends on.
EXTENDS Integers, Sequences, FiniteSets

\* ---------------------------------------------------------------- bounds
\* generate_object.py:252 sets max_iterations = 60; the model runs the same loop
\* with a small budget.
max_iterations == 3

\* ---------------------------------------------------------------- program texts
\* A program text is identified by a number; ProgramTable gives what running it does:
\*   runRaises : exec(code, namespace) raises (syntax error, exception at top level)
\*   bound     : what the name create_object is bound to in the namespace after exec
\*   result    : what calling create_object() does
ProgramTable ==
  << [runRaises |-> FALSE, bound |-> "callable",    result |-> "solid"],
     [runRaises |-> FALSE, bound |-> "callable",    result |-> "solid"],
     [runRaises |-> FALSE, bound |-> "callable",    result |-> "solid"],
     [runRaises |-> FALSE, bound |-> "callable",    result |-> "empty"],
     [runRaises |-> FALSE, bound |-> "callable",    result |-> "nonsolid"],
     [runRaises |-> FALSE, bound |-> "callable",    result |-> "raises"],
     [runRaises |-> FALSE, bound |-> "absent",      result |-> "none"],
     [runRaises |-> FALSE, bound |-> "noncallable", result |-> "none"],
     [runRaises |-> TRUE,  bound |-> "absent",      result |-> "none"],
     [runRaises |-> TRUE,  bound |-> "callable",    result |-> "solid"] >>

Programs == 1 .. Len(ProgramTable)

\* No text: a file that does not exist, a variable not yet assigned.
NoText == 0

\* Python's unbound local variable (iteration before the for statement binds it).
UNBOUND == -1

\* ---------------------------------------------------------------- views
ViewOrder == << "pos_x", "neg_x", "pos_y", "neg_y", "pos_z", "neg_z" >>

Views == { ViewOrder[i] : i \in 1 .. Len(ViewOrder) }

\* load_images_from_directory: the files whose existence is checked.
filename_to_label == { "pos_x", "pos_y", "pos_z" }

\* make_code_edit: view_labels = ["front", "top", "right"] through label_to_filename.
view_labels == << "pos_z", "pos_y", "pos_x" >>

\* ---------------------------------------------------------------- execute_code
\* The result of execute_code.execute_code(code): either a raised exception
\* (status "raise", with its kind) or the returned value (status "return").
ExecResult(status, kind, value) == [status |-> status, kind |-> kind, value |-> value]

\* Variant: line 9-10's check left out, so the lookup or the call itself raises.
execute_code_unchecked(p) ==
  LET b == ProgramTable[p] IN
  IF b.runRaises THEN ExecResult("raise", "ProgramError", "none")
  ELSE IF b.bound = "absent" THEN ExecResult("raise", "KeyError", "none")
  ELSE IF b.bound = "noncallable" THEN ExecResult("raise", "TypeError", "none")
  ELSE IF b.result = "raises" THEN ExecResult("raise", "ProgramError", "none")
  ELSE ExecResult("return", "none", b.result)

\* execute_code.py:3-13 as written.
execute_code(p) ==
  LET b == ProgramTable[p] IN
  IF b.runRaises THEN ExecResult("raise", "ProgramError", "none")
  ELSE IF b.bound # "callable" THEN ExecResult("raise", "DefinitionValueError", "none")
  ELSE IF b.result = "raises" THEN ExecResult("raise", "ProgramError", "none")
  ELSE ExecResult("return", "none", b.result)

\* ---------------------------------------------------------------- state
VARIABLES
  env,          \* the files present before the run (never changes)
  pc,           \* the statement main is at
  codePy,       \* content of code.py (NoText: no such file)
  code,         \* main's local variable code
  new_code,     \* main's local variable new_code
  iteration,    \* main's loop variable (UNBOUND before the for statement binds it)
  manifold_obj, \* value returned by execute_code in this pass
  current_dir,  \* pass index of the directory returned by the renderer
  err,          \* the exception being propagated, and the step that raised it
  output,       \* what main has printed, in order
  calls,        \* execute / render / propose calls started, in order
  artifacts,    \* files under objects/temp_<d>/ : triples <<d, item, writing pass>>
  accepted,     \* number of times line 285-286 has rewritten code.py
  outcome,      \* how the loop ended
  exitCode,     \* the process exit code (UNBOUND while running)
  error,        \* main's local variable error (UNBOUND before line 290 binds it)
  response,     \* the text of the model's last answer, as a sequence of tokens
  exporter      \* the mesh export scripts: the mesh, the lines written, the position

vars == << env, pc, codePy, code, new_code, iteration, manifold_obj, current_dir,
           err, output, calls, artifacts, accepted, outcome, exitCode,
           error, response, exporter >>

\* The export scripts are not running.
ExporterIdle == [pc |-> "idle", vertices |-> << >>, faces |-> << >>, lines |-> << >>]

NoErr == [kind |-> "none", step |-> "none"]

\* The target image directories the run may find.
TargetDirs ==
  { [dir |-> FALSE, views |-> {}],
    [dir |-> TRUE,  views |-> {}],
    [dir |-> TRUE,  views |-> Views],
    [dir |-> TRUE,  views |-> filename_to_label],
    [dir |-> TRUE,  views |-> Views \ {"pos_x"}],
    [dir |-> TRUE,  views |-> Views \ {"neg_x"}] }

\* What code.py may hold before the run: nothing, or the text an earlier run left
\* there (a working program, or one that fails when executed).
PriorCodePy == { NoText, 1, 6 }

Environments ==
  [ apiKey     : {"ok", "empty", "missing"},
    targetMesh : BOOLEAN,
    initial    : Programs \cup {NoText},
    example    : BOOLEAN,
    target     : TargetDirs,
    codePyBefore : PriorCodePy ]

Init ==
  /\ env \in Environments
  /\ pc = "import"
  /\ codePy = env.codePyBefore
  /\ code = NoText
  /\ new_code = NoText
  /\ iteration = UNBOUND
  /\ manifold_obj = "none"
  /\ current_dir = UNBOUND
  /\ err = NoErr
  /\ output = << >>
  /\ calls = << >>
  /\ artifacts = {}
  /\ accepted = 0
  /\ outcome = "RUNNING"
  /\ exitCode = UNBOUND
  /\ error = UNBOUND
  /\ response = << >>
  /\ exporter = ExporterIdle

\* ---------------------------------------------------------------- helpers
Emit(tag, text) == output' = Append(output, [tag |-> tag, text |-> text])

Call(op, text) == calls' = Append(calls, [op |-> op, pass |-> iteration, text |-> text])

\* Variant: the exception is swallowed inside the loop, which goes on.
ExceptTargetContinue == "loop_head"

\* Where an exception raised inside main's try block lands: the first except clause.
ExceptTarget == "handler"

\* An exception raised by a statement inside the try block (lines 244-297).
Raise(kind, step) ==
  /\ err' = [kind |-> kind, step |-> step]
  /\ outcome' = "FAILED"
  /\ pc' = ExceptTarget

\* An exception nothing catches: the interpreter prints a traceback and exits 1.
Uncaught(kind, step) ==
  /\ err' = [kind |-> kind, step |-> step]
  /\ outcome' = "CRASHED"
  /\ exitCode' = 1
  /\ pc' = "done"

\* ---------------------------------------------------------------- startup
\* Lines 17-29: the module reads api_key.txt when it is imported.
ImportModule ==
  /\ pc = "import"
  /\ IF env.apiKey = "ok"
       THEN /\ pc' = "load_target"
            /\ UNCHANGED << err, outcome, exitCode >>
       ELSE Uncaught("ValueError", "import")
  /\ UNCHANGED << error, response, exporter, env, codePy, code, new_code, iteration, manifold_obj, current_dir,
                  output, calls, artifacts, accepted >>

\* Lines 236-242: the target mesh is loaded before the try block.
LoadTarget ==
  /\ pc = "load_target"
  /\ IF env.targetMesh
       THEN /\ pc' = "read_initial"
            /\ UNCHANGED << err, outcome, exitCode >>
       ELSE Uncaught("FileNotFoundError", "load_target")
  /\ UNCHANGED << error, response, exporter, env, codePy, code, new_code, iteration, manifold_obj, current_dir,
                  output, calls, artifacts, accepted >>

\* Lines 246-247: code = open("initial_code.py").read()
ReadInitial ==
  /\ pc = "read_initial"
  /\ IF env.initial # NoText
       THEN /\ code' = env.initial
            /\ pc' = "seed"
            /\ UNCHANGED << err, outcome >>
       ELSE /\ Raise("FileNotFoundError", "read_initial")
            /\ UNCHANGED code
  /\ UNCHANGED << error, response, exporter, env, codePy, new_code, iteration, manifold_obj, current_dir,
                  output, calls, artifacts, accepted, exitCode >>

\* Variant: the seeding write left out.
SeedWriteNothing(old, text) == old

\* Lines 249-250: what the seeding write leaves in code.py.

SeedWrite(old, text) == text

SeedCodePy ==
  /\ pc = "seed"
  /\ codePy' = SeedWrite(codePy, code)
  /\ pc' = "loop_head"
  /\ UNCHANGED << error, response, exporter, env, code, new_code, iteration, manifold_obj, current_dir, err,
                  output, calls, artifacts, accepted, outcome, exitCode >>

\* ---------------------------------------------------------------- the loop
\* Variant: one pass too many.
range_has_next_off_by_one(i) == i + 1 <= max_iterations

\* Line 253: range(max_iterations) still has an index after i.

range_has_next(i) == i + 1 < max_iterations

\* Lines 253-254: the for statement binds the next index, or the loop is exhausted
\* and control reaches line 309.
LoopHead ==
  /\ pc = "loop_head"
  /\ IF range_has_next(iteration)
       THEN /\ iteration' = iteration + 1
            /\ Emit("Iteration", NoText)
            /\ pc' = "read_code"
            /\ UNCHANGED outcome
       ELSE /\ outcome' = "EXHAUSTED"
            /\ pc' = "return0"
            /\ UNCHANGED << iteration, output >>
  /\ UNCHANGED << error, response, exporter, env, codePy, code, new_code, manifold_obj, current_dir, err,
                  calls, artifacts, accepted, exitCode >>

\* Variant: every pass reads initial_code.py again.
ReadCurrentFromInitial(canonical, initial) == initial

\* Lines 257-258: the text the pass works on is read from code.py.

ReadCurrent(canonical, initial) == canonical

ReadCode ==
  /\ pc = "read_code"
  /\ LET text == ReadCurrent(codePy, env.initial) IN
       IF text # NoText
         THEN /\ code' = text
              /\ pc' = "execute"
              /\ UNCHANGED << err, outcome >>
         ELSE /\ Raise("FileNotFoundError", "read_code")
              /\ UNCHANGED code
  /\ UNCHANGED << error, response, exporter, env, codePy, new_code, iteration, manifold_obj, current_dir,
                  output, calls, artifacts, accepted, exitCode >>

\* execute_code.py:5: namespace = {} ; the names bound in the namespace the
\* program is run in, before it runs.
initial_namespace == {}

\* Line 261: manifold_obj = execute_code.execute_code(code)
Execute ==
  /\ pc = "execute"
  /\ calls' = Append(calls, [op |-> "execute", pass |-> iteration, text |-> code,
                             ns |-> initial_namespace])
  /\ LET r == execute_code(code) IN
       IF r.status = "return"
         THEN /\ manifold_obj' = r.value
              /\ pc' = "to_mesh"
              /\ UNCHANGED << err, outcome >>
         ELSE /\ Raise(r.kind, "execute")
              /\ UNCHANGED manifold_obj
  /\ UNCHANGED << error, response, exporter, env, codePy, code, new_code, iteration, current_dir,
                  output, artifacts, accepted, exitCode >>

\* Variant: the pass goes from the mesh straight to the proposer.
AfterMeshSkipsRender == "propose"

\* Lines 264-269: the statement after the mesh extraction is the render.
AfterMesh == "render"

\* Lines 262-264: mesh = manifold_obj.to_mesh(); a value that is no Manifold has no
\* such method.
ToMesh ==
  /\ pc = "to_mesh"
  /\ IF manifold_obj \in {"solid", "empty"}
       THEN /\ pc' = AfterMesh
            /\ UNCHANGED << err, outcome >>
       ELSE Raise("AttributeError", "to_mesh")
  /\ UNCHANGED << error, response, exporter, env, codePy, code, new_code, iteration, manifold_obj, current_dir,
                  output, calls, artifacts, accepted, exitCode >>

\* Variant: every pass renders into the same directory (as test.py:99 does).
artifact_dir_shared(i) == 0

\* Line 269 ("temp_" + str(iteration)) and line 294: the directory of pass i.
artifact_dir(i) == i

\* The files fs after pass i has made directory d (render_image.py:8-11 makes it
\* only when it does not exist) and written items into it: a file written again
\* is replaced.
WriteFiles(fs, d, items, i) ==
  LET kept == { a \in fs : ~(a[1] = d /\ a[2] \in items) }
      made == IF \E a \in fs : a[1] = d /\ a[2] = "dir" THEN {} ELSE {<<d, "dir", i>>}
  IN kept \cup made \cup { <<d, it, i>> : it \in items }

\* render_image.render_mesh_views_from_arrays writes its views in this order;
\* the first n of them.
ViewsWritten(n) == { ViewOrder[i] : i \in 1 .. n }

\* Variant: the renderer saves the three positive views only.
RenderedViewsPositiveOnly == { "pos_x", "pos_y", "pos_z" }

\* render_image.py:39-58: the views a completed render has saved.
RenderedViews == Views

\* Lines 267-269: ps.init(), create_coordinate_axes(), render_mesh_views_from_arrays.
\* The renderer is external: it may fail before the output directory is made (init),
\* or after any number of the six screenshots. A mesh without vertices fails at
\* render_image.py:28 (maximum of an empty array), after the directory is made.
Render ==
  /\ pc = "render"
  /\ Call("render", code)
  /\ \/ /\ Raise("RenderError", "render")
        /\ UNCHANGED << artifacts, current_dir >>
     \/ /\ \E n \in 0 .. (Len(ViewOrder) - 1) :
             /\ manifold_obj = "empty" => n = 0
             /\ artifacts' = WriteFiles(artifacts, artifact_dir(iteration),
                                        ViewsWritten(n), iteration)
        /\ Raise("RenderError", "render")
        /\ UNCHANGED current_dir
     \/ /\ manifold_obj = "solid"
        /\ artifacts' = WriteFiles(artifacts, artifact_dir(iteration),
                                   RenderedViews, iteration)
        /\ current_dir' = artifact_dir(iteration)
        /\ pc' = "propose"
        /\ UNCHANGED << err, outcome >>
  /\ UNCHANGED << error, response, exporter, env, codePy, code, new_code, iteration, manifold_obj,
                  output, accepted, exitCode >>

\* load_images_from_directory (lines 216-232): the directory and each file of
\* filename_to_label must exist.
load_images_ok(target) == target.dir /\ filename_to_label \subseteq target.views

\* Variant: identical text is not noticed.
ConvergedNever(new, old) == FALSE

\* Variant: a zero error of the previous pass also ends the loop.
ConvergedOrNoError(new, old) == new = old \/ error = 0

\* Line 276: the convergence test.

Converged(new, old) == new = old

\* ---------------------------------------------------------------- the model's answer
\* A text is a sequence of tokens: a fence marker (```), the word python, a run
\* of whitespace, a piece of prose, or the whole text of program id.
Tok(k, id) == [k |-> k, id |-> id]

F == Tok("fence", NoText)

PY == Tok("python", NoText)

WS == Tok("ws", NoText)

PROSE == Tok("prose", NoText)

RECURSIVE lstrip(_)
lstrip(t) == IF t # << >> /\ Head(t).k = "ws" THEN lstrip(Tail(t)) ELSE t

RECURSIVE rstrip(_)
rstrip(t) ==
  IF t # << >> /\ t[Len(t)].k = "ws" THEN rstrip(SubSeq(t, 1, Len(t) - 1)) ELSE t

\* str.strip()
strip(t) == rstrip(lstrip(t))

\* generate_object.py:31-50. The pattern ^```(?:python)?\s*([\s\S]*?)```\s*$ is
\* matched at the start of text.strip(): the stripped text must begin with a fence
\* and the closing fence must be followed by whitespace only, that is, be its
\* last token. The group starts after the optional python and the whitespace
\* following it, and is stripped. Without a match the text is returned as it came.
clean_code_from_markdown(text) ==
  LET t == strip(text)
      n == Len(t)
  IN IF n >= 2 /\ t[1].k = "fence" /\ t[n].k = "fence"
       THEN LET afterTag == IF t[2].k = "python" THEN 3 ELSE 2
            IN strip(SubSeq(t, afterTag, n - 1))
       ELSE text

\* The answers the model may give for a program p: the bare program, the program
\* in a fence (with or without the language tag, with or without whitespace
\* around the block), and the fenced program with prose before or after it.
ResponsesFor(p) ==
  { << Tok("code", p) >>,
    << F, PY, WS, Tok("code", p), WS, F >>,
    << F, WS, Tok("code", p), WS, F >>,
    << WS, F, PY, WS, Tok("code", p), WS, F, WS >>,
    << PROSE, WS, F, PY, WS, Tok("code", p), WS, F >>,
    << F, PY, WS, Tok("code", p), WS, F, WS, PROSE >> }

Responses == UNION { ResponsesFor(p) : p \in Programs }

\* A text that is not exactly one program (fence markers or prose left in it) does
\* not parse as Python: it is a text that raises when run.
BrokenText == 9

\* The program text a token sequence is.
TextOf(t) == IF Len(t) = 1 /\ t[1].k = "code" THEN t[1].id ELSE BrokenText

\* Lines 115-157: the three views of view_labels are read from the target
\* directory and from the directory the renderer returned.
images_readable ==
  \A i \in 1 .. Len(view_labels) :
    /\ view_labels[i] \in env.target.views
    /\ \E a \in artifacts : a[1] = current_dir /\ a[2] = view_labels[i]

\* Line 273: new_code = make_code_edit(code, target_dir, current_dir).
\* Lines 58-64 read example.txt, line 102 checks the target images, lines 115-157
\* read the three target and the three current images, lines 165-185 call the
\* model (which may fail, or answer with any text) and clean its answer.
Propose ==
  /\ pc = "propose"
  /\ IF ~env.example
       THEN /\ Call("propose", code)
            /\ Raise("ValueError", "propose")
            /\ UNCHANGED << new_code, output, response >>
     ELSE IF ~load_images_ok(env.target)
       THEN /\ Call("propose", code)
            /\ Raise("ValueError", "propose")
            /\ UNCHANGED << new_code, output, response >>
     ELSE IF ~images_readable
       THEN /\ Call("propose", code)
            /\ Raise("FileNotFoundError", "propose")
            /\ UNCHANGED << new_code, output, response >>
     ELSE \/ /\ calls' = calls \o << [op |-> "propose", pass |-> iteration, text |-> code],
                                      [op |-> "model", pass |-> current_dir, text |-> code] >>
             /\ Raise("ProposalError", "propose")
             /\ Emit("Error generating object code", NoText)
             /\ UNCHANGED << new_code, response >>
          \/ /\ calls' = calls \o << [op |-> "propose", pass |-> iteration, text |-> code],
                                      [op |-> "model", pass |-> current_dir, text |-> code] >>
             /\ \E r \in Responses :
                  /\ response' = r
                  /\ new_code' = TextOf(clean_code_from_markdown(r))
             /\ pc' = "compare"
             /\ UNCHANGED << err, outcome, output >>
  /\ UNCHANGED << error, exporter, env, codePy, code, iteration, manifold_obj, current_dir,
                  artifacts, accepted, exitCode >>

\* Lines 276-282: break on identical text, else code = new_code.
Compare ==
  /\ pc = "compare"
  /\ IF Converged(new_code, code)
       THEN /\ Emit("Code has converged", NoText)
            /\ outcome' = "CONVERGED"
            /\ pc' = "return0"
            /\ UNCHANGED code
       ELSE /\ code' = new_code
            /\ Emit("Generated new code", new_code)
            /\ pc' = "write_code"
            /\ UNCHANGED outcome
  /\ UNCHANGED << error, response, exporter, env, codePy, new_code, iteration, manifold_obj, current_dir, err,
                  calls, artifacts, accepted, exitCode >>

\* Lines 285-287: code.py is overwritten with the accepted text.
WriteCode ==
  /\ pc = "write_code"
  /\ codePy' = code
  /\ accepted' = accepted + 1
  /\ Emit("Updated code written", NoText)
  /\ pc' = "record"
  /\ UNCHANGED << error, response, exporter, env, code, new_code, iteration, manifold_obj, current_dir, err,
                  calls, artifacts, outcome, exitCode >>

\* Line 290: error = symmetric_difference.volume(), a value the kernel computes:
\* 0 when the solid equals the target, 1 standing for any positive volume.
ErrorValues == { 0, 1 }

\* Lines 289-297: the symmetric difference is computed, printed and written to
\* objects/temp_<iteration>/volumes.txt.
Record ==
  /\ pc = "record"
  /\ error' \in ErrorValues
  /\ output' = output \o << [tag |-> "Created Manifold object with volume", text |-> NoText],
                            [tag |-> "Error value", text |-> NoText] >>
  /\ artifacts' = WriteFiles(artifacts, artifact_dir(iteration), {"volumes"}, iteration)
  /\ pc' = "loop_head"
  /\ UNCHANGED << response, exporter, env, codePy, code, new_code, iteration, manifold_obj, current_dir,
                  err, calls, accepted, outcome, exitCode >>

\* Lines 299-303: the first except clause. It prints the error, reads the loop
\* variable (which is unbound when the failure came before the for statement) and
\* falls through to line 309.
Handler ==
  /\ pc = "handler"
  /\ IF iteration = UNBOUND
       THEN /\ Emit("Error", NoText)
            /\ Uncaught("UnboundLocalError", "handler")
       ELSE /\ output' = output \o << [tag |-> "Error", text |-> NoText] >> \o
                           ( IF iteration = max_iterations - 1
                               THEN << [tag |-> "Reached maximum number of iterations",
                                        text |-> NoText] >>
                               ELSE << >> )
            /\ pc' = "return0"
            /\ UNCHANGED << err, outcome, exitCode >>
  /\ UNCHANGED << error, response, exporter, env, codePy, code, new_code, iteration, manifold_obj, current_dir,
                  calls, artifacts, accepted >>

\* Line 309 and line 312: return 0; exit(main()).
Return0 ==
  /\ pc = "return0"
  /\ exitCode' = 0
  /\ pc' = "done"
  /\ UNCHANGED << error, response, exporter, env, codePy, code, new_code, iteration, manifold_obj, current_dir,
                  err, output, calls, artifacts, accepted, outcome >>

Next ==
  \/ ImportModule
  \/ LoadTarget
  \/ ReadInitial
  \/ SeedCodePy
  \/ LoopHead
  \/ ReadCode
  \/ Execute
  \/ ToMesh
  \/ Render
  \/ Propose
  \/ Compare
  \/ WriteCode
  \/ Record
  \/ Handler
  \/ Return0

Spec == Init /\ [][Next]_vars

\* ================================================================ claims

\* C1: the number of accepted edits never exceeds max_iterations; once
\* max_iterations edits have been accepted no further pass starts, the loop ends
\* EXHAUSTED (and only then), and the process exits with code 0.
C1_BudgetRespected ==
  /\ accepted <= max_iterations
  /\ accepted = max_iterations => pc \in {"record", "loop_head", "return0", "done"}
  /\ (accepted = max_iterations /\ pc \in {"return0", "done"}) => outcome = "EXHAUSTED"
  /\ outcome = "EXHAUSTED" => (accepted = max_iterations /\ iteration = max_iterations - 1)
  /\ (outcome = "EXHAUSTED" /\ pc = "done") => exitCode = 0

C1_Witness ==
  /\ pc = "done"
  /\ outcome = "EXHAUSTED"
  /\ accepted = max_iterations
  /\ exitCode = 0

\* C2: when the proposal of pass k equals the program executed in pass k, the
\* controller stops CONVERGED after exactly k accepted edits and exits 0; from the
\* comparison on, code.py is not rewritten, no execute, render or propose call is
\* made and no artifact with an index above k exists.
C2_ConvergenceStops ==
  [][ /\ (pc = "compare" /\ new_code = code) =>
            /\ outcome' = "CONVERGED"
            /\ accepted' = iteration
            /\ UNCHANGED << codePy, calls, artifacts, iteration >>
            /\ \A a \in artifacts' : a[1] <= iteration
      /\ outcome = "CONVERGED" =>
            /\ outcome' = "CONVERGED"
            /\ pc' \in {"return0", "done"}
            /\ UNCHANGED << codePy, calls, artifacts, accepted, iteration >>
            /\ pc' = "done" => exitCode' = 0
    ]_vars

C2_Witness ==
  /\ pc = "done"
  /\ outcome = "CONVERGED"
  /\ iteration = 2
  /\ accepted = 2
  /\ codePy = new_code
  /\ exitCode = 0

\* C4: when a step of a pass fails, the loop stops there: from the failure on no
\* execute, render or propose call is made (no retry, no later step, no later pass),
\* code.py is not rewritten and no artifact is written.
PassSteps == {"execute", "to_mesh", "render", "propose"}

C4_FailureStopsLoop ==
  [][ /\ (err = NoErr /\ err' # NoErr) =>
            /\ pc' \in {"handler", "done"}
            /\ UNCHANGED << codePy, accepted, iteration >>
      /\ err.step \in PassSteps =>
            /\ pc' \in {"return0", "done"}
            /\ err' = err
            /\ UNCHANGED << codePy, code, calls, artifacts, accepted, iteration >>
    ]_vars

C4_Witness ==
  /\ pc = "done"
  /\ err.step = "propose"
  /\ err.kind = "ProposalError"
  /\ iteration = 1
  /\ accepted = 1
  /\ Len(calls) = 8

\* C3 (as claimed): the exit code is non-zero whenever the run ended because of an
\* error, and 0 only when the loop ended CONVERGED or EXHAUSTED.
C3_ExitCodeReflectsOutcome ==
  pc = "done" => (exitCode = 0 <=> outcome \in {"CONVERGED", "EXHAUSTED"})

\* The text passed to the most recently started EXECUTE step (NoText before the
\* first one).
RECURSIVE LastExecutedFrom(_)
LastExecutedFrom(i) ==
  IF i = 0 THEN NoText
  ELSE IF calls[i].op = "execute" THEN calls[i].text
  ELSE LastExecutedFrom(i - 1)

LastExecuted == LastExecutedFrom(Len(calls))

\* C5 (as claimed): once an EXECUTE step has started, code.py always holds the
\* text passed to the most recently started EXECUTE step.
C5_CanonicalIsLastExecuted ==
  LastExecuted # NoText => codePy = LastExecuted

\* C5 (amended): once an EXECUTE step has started, code.py holds the text passed
\* to the most recently started EXECUTE step until that pass's proposal is
\* accepted; from the accepting write on (until the next EXECUTE step starts, or
\* to the end of the run) it holds the accepted proposal, which differs from the
\* executed text. Every EXECUTE step is passed the content of code.py.
AcceptedSinceExecute ==
  \/ pc \in {"record", "loop_head", "read_code", "execute"}
  \/ outcome = "EXHAUSTED"

C5_CanonicalIsExecutedOrAccepted ==
  /\ LastExecuted # NoText =>
       IF AcceptedSinceExecute
         THEN codePy = new_code /\ codePy # LastExecuted
         ELSE codePy = LastExecuted
  /\ pc = "execute" => code = codePy

C5_Witness ==
  /\ pc = "to_mesh"
  /\ iteration = 2
  /\ codePy = LastExecuted
  /\ codePy # env.initial

\* C6 (as claimed): when the initial program fails in execute during the first
\* pass, code.py is after the run what it was before the run.
FirstExecuteFailed ==
  /\ pc = "done"
  /\ err.step = "execute"
  /\ iteration = 0

C6_CanonicalUnchangedByFailedRun ==
  FirstExecuteFailed => codePy = env.codePyBefore

\* C6 (amended): when the initial program fails in execute during the first pass,
\* code.py holds after the run the initial program text it was seeded with (the
\* content of initial_code.py), whatever it held before the run.
C6_CanonicalIsSeedAfterFailedRun ==
  FirstExecuteFailed => codePy = env.initial

C6_Witness ==
  /\ FirstExecuteFailed
  /\ env.codePyBefore # NoText
  /\ env.codePyBefore # env.initial
  /\ codePy = env.initial

\* The last call started is an EXECUTE step that has returned or raised.
ExecuteJustEnded ==
  /\ Len(calls) > 0
  /\ calls[Len(calls)].op = "execute"
  /\ pc # "execute"

DefinitionError == [kind |-> "DefinitionValueError", step |-> "execute"]

\* C7 (as claimed): for every program text that does not bind a callable
\* create_object, programs that raise while being run included, execute fails
\* with the definition error and with nothing else.
C7_MissingCreateObjectIsDefinitionError ==
  (ExecuteJustEnded /\ ProgramTable[code].bound # "callable") => err = DefinitionError

\* C7 (amended): for every program text that runs to its end without raising and
\* does not bind a callable create_object, execute fails with the definition
\* error and with nothing else; a program that raises while being run fails with
\* the exception it raised.
C7_CompletedProgramWithoutCreateObject ==
  /\ (ExecuteJustEnded /\ ~ProgramTable[code].runRaises
        /\ ProgramTable[code].bound # "callable") => err = DefinitionError
  /\ (ExecuteJustEnded /\ ProgramTable[code].runRaises) =>
        err = [kind |-> "ProgramError", step |-> "execute"]

C7_Witness ==
  /\ ExecuteJustEnded
  /\ ProgramTable[code].bound = "noncallable"
  /\ err = DefinitionError
  /\ pc = "handler"

\* C8 (as claimed): a value returned by create_object that is no solid is refused
\* by execute with a type-conflict error, so mesh extraction never starts on it.
C8_NonSolidRefused ==
  /\ pc = "to_mesh" => manifold_obj \in {"solid", "empty"}
  /\ (ExecuteJustEnded /\ ~ProgramTable[code].runRaises
        /\ ProgramTable[code].bound = "callable"
        /\ ProgramTable[code].result = "nonsolid") =>
        err = [kind |-> "TypeConflictError", step |-> "execute"]

\* The output of the current pass: what was printed after its "Iteration" line.
RECURSIVE PassOutputStart(_)
PassOutputStart(i) ==
  IF i = 0 THEN 0
  ELSE IF output[i].tag = "Iteration" THEN i
  ELSE PassOutputStart(i - 1)

\* C9 (as claimed): when a pass fails in execute, the output produced for that
\* failure holds the error and the full text of the program that failed.
C9_FailureOutputHasProgramText ==
  (pc = "done" /\ err.step = "execute") =>
     LET from == PassOutputStart(Len(output)) IN
       /\ \E i \in (from + 1) .. Len(output) : output[i].tag = "Error"
       /\ \E i \in (from + 1) .. Len(output) : output[i].text = code

\* A required credential or input file is missing.
MissingInput ==
  \/ env.apiKey # "ok"
  \/ ~env.targetMesh
  \/ env.initial = NoText
  \/ ~env.example
  \/ ~load_images_ok(env.target)

\* C10 (as claimed): when a required credential or input file is missing, the run
\* fails before any partial work: code.py is not written and no execute, render
\* or propose step is performed.
C10_MissingInputFailsAtStartup ==
  MissingInput => (codePy = env.codePyBefore /\ calls = << >> /\ artifacts = {})

\* C11: the views of a pass go to a directory fixed by the pass index alone,
\* different for different passes: every file under objects/temp_<d>/ was written
\* by pass d, and no step overwrites or deletes a view or a volume record that
\* an earlier pass wrote.
C11_ArtifactsKeptPerPass ==
  [][ /\ \A a \in artifacts' : (a \in artifacts) \/ (a[1] = iteration' /\ a[3] = iteration')
      /\ \A a \in artifacts : a \in artifacts'
    ]_vars

C11_Witness ==
  /\ pc = "propose"
  /\ iteration = 2
  /\ \A i \in 0 .. 2 : \A v \in Views : <<i, v, i>> \in artifacts
  /\ \A i \in 0 .. 1 : <<i, "volumes", i>> \in artifacts

\* C12 (as claimed): the program text executed in each pass is written to a
\* location indexed by that pass, so after the run the directory of every pass
\* that executed a program holds that program's text.
C12_ProgramTextKeptPerPass ==
  pc = "done" =>
    \A i \in 1 .. Len(calls) :
      calls[i].op = "execute" =>
        \E a \in artifacts : a[1] = artifact_dir(calls[i].pass) /\ a[2] = "program"

\* The "Reached maximum number of iterations." line has been printed.
ReportedExhausted ==
  \E i \in 1 .. Len(output) : output[i].tag = "Reached maximum number of iterations"

\* C15 (as claimed): the "maximum number of iterations" report is printed if and
\* only if the loop ended EXHAUSTED, never for a run that ended in an error.
C15_ExhaustedIsReported ==
  pc = "done" => (ReportedExhausted <=> outcome = "EXHAUSTED")

\* C17 (as claimed): a non-empty solid handed by execute to the loop has had the
\* kernel's repair operation applied; an empty one is handed over as it is.
C17_ReturnedSolidIsRepaired ==
  pc \in {"to_mesh", "render"} =>
    \/ manifold_obj \in {"empty", "nonsolid"}
    \/ manifold_obj = "repaired solid"

\* The geometry-kernel handle and the numeric-array handle.
KernelHandles == { "Manifold", "np" }

\* C16 (as claimed): every execute call runs its program in a new namespace whose
\* initial bindings are exactly the geometry-kernel handle and the numeric-array
\* handle (so nothing of the controller or of an earlier program is visible).
C16_NamespaceSeededWithHandlesOnly ==
  \A i \in 1 .. Len(calls) :
    calls[i].op = "execute" => calls[i].ns = KernelHandles

\* The volume records written so far.
VolumeRecords == { a \in artifacts : a[2] = "volumes" }

\* C13: the error is computed and recorded once for each accepted edit, and no
\* continue/stop decision reads it: whether a pass starts is decided by the pass
\* count alone, whether the loop breaks by the text comparison alone, whatever
\* the error is.
C13_ErrorNeverGates ==
  [][ /\ pc = "record" =>
            /\ error' \in ErrorValues
            /\ Cardinality(VolumeRecords) = accepted - 1
      /\ pc' # "record" => Cardinality(VolumeRecords') = accepted'
      /\ pc # "record" => error' = error
      /\ pc = "loop_head" => (pc' = "read_code" <=> iteration + 1 < max_iterations)
      /\ pc = "compare" => (pc' = "return0" <=> new_code = code)
      /\ pc = "compare" => (pc' = "write_code" <=> new_code # code)
    ]_vars

C13_Witness ==
  /\ pc = "done"
  /\ outcome = "EXHAUSTED"
  /\ error = 0
  /\ Cardinality(VolumeRecords) = max_iterations

\* The six views of directory d are all there.
SixViewsIn(d) == \A v \in Views : \E a \in artifacts : a[1] = d /\ a[2] = v

\* C14 (as claimed): the model is called only when all six views of the target and
\* all six views of the current result exist.
C14_ModelCalledWithSixAndSix ==
  \A i \in 1 .. Len(calls) :
    calls[i].op = "model" =>
      /\ env.target.dir
      /\ Views \subseteq env.target.views
      /\ SixViewsIn(calls[i].pass)

\* C14 (amended): the model is called only when the target directory holds the
\* three views the proposer uses (pos_x, pos_y, pos_z) and all six views of the
\* current result have been rendered; if one of those three target views is
\* missing the pass fails in propose without a model call. The views neg_x, neg_y
\* and neg_z of the target are not looked at.
C14_ModelCalledWithThreeAndSix ==
  /\ \A i \in 1 .. Len(calls) :
       calls[i].op = "model" =>
         /\ env.target.dir
         /\ {"pos_x", "pos_y", "pos_z"} \subseteq env.target.views
         /\ SixViewsIn(calls[i].pass)
  /\ ( /\ ~({"pos_x", "pos_y", "pos_z"} \subseteq env.target.views)
       /\ Len(calls) > 0 /\ calls[Len(calls)].op = "propose" )
       => (err.step = "propose" /\ err.kind = "ValueError")

C14_Witness ==
  /\ pc = "compare"
  /\ env.target.views = {"pos_x", "pos_y", "pos_z"}
  /\ calls[Len(calls)].op = "model"
  /\ SixViewsIn(current_dir)

\* A fence marker occurs in the text.
HasFence(t) == \E i \in 1 .. Len(t) : t[i].k = "fence"

\* The text carries a program inside a fenced block.
HasFencedProgram(t) ==
  \E i, j, k \in 1 .. Len(t) :
    i < j /\ j < k /\ t[i].k = "fence" /\ t[j].k = "code" /\ t[k].k = "fence"

\* C18 (as claimed): when the answer carries its program inside a fenced block,
\* the text make_code_edit returns has no fence marker left in it; an answer
\* without a fence is returned unchanged.
C18_FenceAlwaysStripped ==
  pc = "compare" =>
    LET returned == clean_code_from_markdown(response) IN
      /\ HasFencedProgram(response) => ~HasFence(returned)
      /\ ~HasFence(response) => returned = response
      /\ new_code = TextOf(returned)

\* ================================================================ mesh export
\* The export of a mesh to objects/<name>/output.obj, written three times in the
\* repository with the same statements: test.py:81-95 (write_to_obj),
\* sphere_and_cube.py:41-54 and create.py:45-59.
MaxVerts == 3

MaxFaces == 2

\* mesh.vert_properties: vertex k stands for a row of three coordinates.
VertexLists == { [k \in 1 .. n |-> << k, 0, 0 >>] : n \in 0 .. MaxVerts }

\* mesh.tri_verts for n vertices: up to MaxFaces rows of three 0-based indices.
FaceLists(n) ==
  UNION { [1 .. m -> (0 .. n - 1) \X (0 .. n - 1) \X (0 .. n - 1)] : m \in 0 .. MaxFaces }

mainVars == << env, pc, codePy, code, new_code, iteration, manifold_obj, current_dir,
               err, output, calls, artifacts, accepted, outcome, exitCode,
               error, response >>

\* The refinement loop is not running; a mesh is about to be exported.
InitExport ==
  /\ env = [apiKey |-> "ok", targetMesh |-> TRUE, initial |-> 1, example |-> TRUE,
            target |-> [dir |-> TRUE, views |-> Views], codePyBefore |-> NoText]
  /\ pc = "not started"
  /\ codePy = NoText
  /\ code = NoText
  /\ new_code = NoText
  /\ iteration = UNBOUND
  /\ manifold_obj = "none"
  /\ current_dir = UNBOUND
  /\ err = NoErr
  /\ output = << >>
  /\ calls = << >>
  /\ artifacts = {}
  /\ accepted = 0
  /\ outcome = "RUNNING"
  /\ exitCode = UNBOUND
  /\ error = UNBOUND
  /\ response = << >>
  /\ \E vs \in VertexLists : \E fs \in FaceLists(Len(vs)) :
       exporter = [pc |-> "vertices", vertices |-> vs, faces |-> fs, lines |-> << >>]

\* Variant: the index is written as it is stored, 0-based.
obj_index_unshifted(i) == i

\* test.py:95: face[0]+1 ("OBJ uses 1-indexed vertices").
obj_index(i) == i + 1

\* test.py:91: f"v {v[0]} {v[1]} {v[2]}\n"
VLine(v) == [tag |-> "v", a |-> v[1], b |-> v[2], c |-> v[3]]

\* test.py:95: f"f {face[0]+1} {face[1]+1} {face[2]+1}\n"
FLine(face) ==
  [tag |-> "f", a |-> obj_index(face[1]), b |-> obj_index(face[2]),
   c |-> obj_index(face[3])]

\* test.py:90-91: for v in vertices: f.write(...)
WriteVertices ==
  /\ exporter.pc = "vertices"
  /\ exporter' = [exporter EXCEPT
       !.lines = exporter.lines \o
                   [k \in 1 .. Len(exporter.vertices) |-> VLine(exporter.vertices[k])],
       !.pc = "faces"]
  /\ UNCHANGED mainVars

\* test.py:94-95: for face in faces: f.write(...)
WriteFaces ==
  /\ exporter.pc = "faces"
  /\ exporter' = [exporter EXCEPT
       !.lines = exporter.lines \o
                   [k \in 1 .. Len(exporter.faces) |-> FLine(exporter.faces[k])],
       !.pc = "written"]
  /\ UNCHANGED mainVars

NextExport ==
  \/ WriteVertices
  \/ WriteFaces

SpecExport == InitExport /\ [][NextExport]_vars

\* Reading the text back: the lines with a given tag, in order.
RECURSIVE LinesTagged(_, _)
LinesTagged(lines, tag) ==
  IF lines = << >> THEN << >>
  ELSE IF Head(lines).tag = tag THEN << Head(lines) >> \o LinesTagged(Tail(lines), tag)
  ELSE LinesTagged(Tail(lines), tag)

\* Reading the text back: the faces, 1 subtracted from every index.
ReparsedFaces(lines) ==
  LET fl == LinesTagged(lines, "f")
  IN [k \in 1 .. Len(fl) |-> << fl[k].a - 1, fl[k].b - 1, fl[k].c - 1 >>]

\* C19: for a mesh of n vertices and m faces with indices in 0 .. n-1 the exported
\* text has n v-lines and m f-lines, every index written is in 1 .. n, and reading
\* the text back gives the same n, m and index triples.
C19_ExportRoundTrip ==
  exporter.pc = "written" =>
    LET n  == Len(exporter.vertices)
        fl == LinesTagged(exporter.lines, "f")
    IN /\ Len(LinesTagged(exporter.lines, "v")) = n
       /\ Len(fl) = Len(exporter.faces)
       /\ \A k \in 1 .. Len(fl) : {fl[k].a, fl[k].b, fl[k].c} \subseteq 1 .. n
       /\ ReparsedFaces(exporter.lines) = exporter.faces

C19_Witness ==
  /\ exporter.pc = "written"
  /\ Len(exporter.vertices) = 3
  /\ exporter.faces = << << 0, 1, 2 >>, << 2, 1, 0 >> >>
  /\ Len(exporter.lines) = 5

\* C20: every propose call comes right after the execute call and the render
\* call of its own pass; it is given the text that pass executed and the directory
\* holding the six views that pass rendered; the calls are made one after the
\* other, each pass making them in the order execute, render, propose.
C20_ProposeUsesThisPass ==
  \A i \in 1 .. Len(calls) :
    /\ calls[i].op = "propose" =>
         /\ i >= 3
         /\ calls[i - 2].op = "execute" /\ calls[i - 1].op = "render"
         /\ calls[i - 2].pass = calls[i].pass /\ calls[i - 1].pass = calls[i].pass
         /\ calls[i - 2].text = calls[i].text /\ calls[i - 1].text = calls[i].text
         /\ \A v \in Views : << artifact_dir(calls[i].pass), v, calls[i].pass >> \in artifacts
    /\ calls[i].op = "model" =>
         /\ calls[i - 1].op = "propose"
         /\ calls[i].pass = artifact_dir(calls[i - 1].pass)
         /\ calls[i].text = calls[i - 1].text
    /\ calls[i].op = "render" => (calls[i - 1].op = "execute" /\ calls[i - 1].pass = calls[i].pass)
    /\ (calls[i].op = "execute" /\ i > 1) =>
         (calls[i - 1].op = "model" /\ calls[i].pass = calls[i - 1].pass + 1)

C20_Witness ==
  /\ pc = "compare"
  /\ iteration = 1
  /\ calls[Len(calls)].op = "model"
  /\ calls[Len(calls)].text # calls[1].text
  /\ calls[Len(calls)].pass = 1

\* Some pass of this run has executed text t successfully and rendered it: a
\* render call for t was made (so execute had returned and the mesh was taken)
\* and the six views of that pass are in its directory.
ExecutedAndRendered(t) ==
  \E i \in 1 .. Len(calls) :
    /\ calls[i].op = "render"
    /\ calls[i].text = t
    /\ \A v \in Views : << artifact_dir(calls[i].pass), v, calls[i].pass >> \in artifacts

\* C21 (as claimed): when a run ends CONVERGED or EXHAUSTED, the text left in
\* code.py has been executed successfully and rendered by a pass of that run.
C21_CanonicalWasExecutedAndRendered ==
  (pc = "done" /\ outcome \in {"CONVERGED", "EXHAUSTED"}) => ExecutedAndRendered(codePy)

\* C21 (amended): when a run ends CONVERGED, the text left in code.py has been
\* executed successfully and rendered by the last pass; when a run ends EXHAUSTED,
\* code.py holds the proposal accepted in the last pass, which has not been
\* executed since it was accepted, and the text it replaced (the one the last
\* pass worked on) has been executed successfully and rendered.
C21_CanonicalAfterNormalEnd ==
  /\ (pc = "done" /\ outcome = "CONVERGED") =>
        /\ codePy = LastExecuted
        /\ ExecutedAndRendered(codePy)
  /\ (pc = "done" /\ outcome = "EXHAUSTED") =>
        /\ codePy = new_code
        /\ codePy # LastExecuted
        /\ ExecutedAndRendered(LastExecuted)

C21_Witness ==
  /\ pc = "done"
  /\ outcome = "EXHAUSTED"
  /\ ~ExecutedAndRendered(codePy)
  /\ \A i \in 1 .. Len(calls) : calls[i].text # codePy

\* C22 (as claimed): for a failure raised anywhere inside main's try block, also
\* before the first pass, the error handler runs to its end and main returns an
\* exit code: the handler raises no exception of its own.
C22_HandlerRunsToCompletion ==
  (pc = "done" /\ err # NoErr /\ err.step \notin {"import", "load_target"}) =>
     /\ err.step # "handler"
     /\ outcome = "FAILED"
     /\ exitCode = 0

====
